---------------------------- MODULE Spec2Model ----------------------------
(***************************************************************************)
(* Model of CommitStorage (src/src/core/database.rs): a content-addressed  *)
(* commit graph, a HEAD pointer and live table rows kept in one ordered    *)
(* key-value store.                                                        *)
(*                                                                         *)
(* Byte strings are sequences of byte values ("u" is <<117>>, ":" is 58).  *)
(* blake3 is modelled symbolically: a digest is the wrapped preimage, so   *)
(* two digests are equal exactly when the hashed bytes are equal.  Under   *)
(* that reading no 32-byte commit key shares a prefix with a table name,   *)
(* and table names are lower-case, so the HEAD key is never in a table's   *)
(* prefix range; the key space is therefore kept as three parts of db:     *)
(* objects (commit keys), head (the HEAD key) and rows (all other keys).   *)
(* prefix_iterator is taken by its contract: it yields exactly the keys    *)
(* that start with the prefix.                                             *)
(*                                                                         *)
(* Three specifications: Spec (one caller, every operation), SpecCorrupt   *)
(* (Spec with a backend that may flip a byte of one stored envelope) and   *)
(* SpecConcurrent (two callers interleaving create_commit).                *)
(***************************************************************************)
EXTENDS Integers, Sequences, FiniteSets, TLC

VARIABLES db, call, last

vars == <<db, call, last>>

----------------------------------------------------------------------------
(* Bounds of the model *)

\* most commit objects the store may hold
MaxObjects == 3
\* most Change records over all stored commits written by create_commit callers
MaxChanges == 2
\* most rows present when the store is opened
MaxInitRows == 1

----------------------------------------------------------------------------
(* Inputs *)

Writers == {1, 2}

\* "u" and "us": one table name is a prefix of the other
TableNames == {<<117>>, <<117, 115>>}
\* "1", "2"
RowIds == {<<49>>, <<50>>}
\* "a", "b"
Values == {<<97>>, <<98>>}
Messages == {<<"init">>}
\* seconds since the epoch read from the wall clock
Timestamps == {0}

Insert(t, i, v) == [kind |-> "Insert", table |-> t, id |-> i, value |-> v]
Update(t, i, v) == [kind |-> "Update", table |-> t, id |-> i, value |-> v]
Delete(t, i) == [kind |-> "Delete", table |-> t, id |-> i]

\* the changes callers submit: users:1 is inserted, updated and deleted,
\* users:2 and the second table are inserted into
ChangeSet ==
    {Insert(<<117>>, <<49>>, <<97>>), Update(<<117>>, <<49>>, <<98>>),
     Delete(<<117>>, <<49>>), Insert(<<117>>, <<50>>, <<98>>),
     Insert(<<117, 115>>, <<49>>, <<97>>)}

RECURSIVE SeqsUpTo(_, _)
SeqsUpTo(S, n) ==
    IF n = 0 THEN {<<>>}
    ELSE LET shorter == SeqsUpTo(S, n - 1)
         IN shorter \cup {Append(s, x) : s \in {q \in shorter : Len(q) = n - 1}, x \in S}

----------------------------------------------------------------------------
(* Byte-string helpers *)

HasPrefix(key, prefix) ==
    /\ Len(key) >= Len(prefix)
    /\ SubSeq(key, 1, Len(prefix)) = prefix

RECURSIVE LexLess(_, _)
LexLess(a, b) ==
    IF a = <<>> THEN b # <<>>
    ELSE IF b = <<>> THEN FALSE
    ELSE IF Head(a) # Head(b) THEN Head(a) < Head(b)
    ELSE LexLess(Tail(a), Tail(b))

RECURSIVE SortKeys(_)
SortKeys(S) ==
    IF S = {} THEN <<>>
    ELSE LET m == CHOOSE k \in S : \A o \in S \ {k} : LexLess(k, o)
         IN <<m>> \o SortKeys(S \ {m})

RECURSIVE Perms(_)
Perms(S) ==
    IF S = {} THEN {<<>>}
    ELSE UNION {{<<x>> \o p : p \in Perms(S \ {x})} : x \in S}

RowKey(table, id) == table \o <<58>> \o id

blake3_hash(bytes) == [digest |-> bytes]

\* bincode of a byte vector: the length as a little-endian u64, then the bytes
serialize_value(v) == <<Len(v), 0, 0, 0, 0, 0, 0, 0>> \o v


----------------------------------------------------------------------------
(* Commit objects and their encoding *)

\* Result<T>: err is compared first, so an Ok and an Err never compare their val
Ok(v) == [err |-> "", ok |-> TRUE, val |-> v]
Err(e) == [err |-> e, ok |-> FALSE, val |-> <<>>]

\* bincode writes the fields in declaration order; the tree, a HashMap, is
\* written in the map's iteration order, given here as the sequence order.
bincode_serialize(commit, order) ==
    [parents |-> commit.parents,
     message |-> commit.message,
     timestamp |-> commit.timestamp,
     changes |-> commit.changes,
     tree |-> [i \in 1..Len(order) |-> <<order[i], commit.tree[order[i]]>>]]

bincode_deserialize(bytes) ==
    [parents |-> bytes.parents,
     message |-> bytes.message,
     timestamp |-> bytes.timestamp,
     changes |-> bytes.changes,
     tree |-> [t \in {bytes.tree[i][1] : i \in 1..Len(bytes.tree)} |->
                 LET i == CHOOSE j \in 1..Len(bytes.tree) : bytes.tree[j][1] = t
                 IN bytes.tree[i][2]]]

\* the stored value: the serialized commit followed by its 32-byte checksum
Envelope(serialized) == <<serialized, blake3_hash(serialized)>>

\* bincode::deserialize reads the commit from the front of the value and
\* ignores the bytes that follow it
DecodeStored(raw) == bincode_deserialize(raw[1])

Stored(store) == DOMAIN store.objects

get_commit_by_hash(store, hash) ==
    IF hash \in DOMAIN store.objects
    THEN Ok(DecodeStored(store.objects[hash]))
    ELSE Err("InvalidInput")

\* Option<[u8; 32]> is a sequence of length 0 (None) or 1 (Some)
get_head(store) == store.head

\* parents.get(0).cloned()
FirstParent(commit) == IF commit.parents = <<>> THEN <<>> ELSE <<commit.parents[1]>>

RECURSIVE load_commit_chain(_, _)
load_commit_chain(store, current_hash) ==
    IF current_hash = <<>> THEN Ok(<<>>)
    ELSE LET got == get_commit_by_hash(store, current_hash[1])
         IN IF ~got.ok THEN got
            ELSE LET rest == load_commit_chain(store, FirstParent(got.val))
                 IN IF ~rest.ok THEN rest ELSE Ok(<<got.val>> \o rest.val)

get_commit_history(store) == load_commit_chain(store, get_head(store))

\* the ids load_commit_chain visits from current_hash, tip first
RECURSIVE ChainIds(_, _)
ChainIds(store, current_hash) ==
    IF current_hash = <<>> THEN <<>>
    ELSE LET got == get_commit_by_hash(store, current_hash[1])
         IN IF ~got.ok THEN current_hash
            ELSE current_hash \o ChainIds(store, FirstParent(got.val))

Reachable(store) ==
    LET ids == ChainIds(store, get_head(store)) IN {ids[i] : i \in 1..Len(ids)}

----------------------------------------------------------------------------
(* Table hash *)

prefix_iterator(store, prefix) == {k \in DOMAIN store.rows : HasPrefix(k, prefix)}

RECURSIVE HashInput(_, _)
HashInput(rows, keys) ==
    IF keys = <<>> THEN <<>>
    ELSE Head(keys) \o rows[Head(keys)] \o HashInput(rows, Tail(keys))

calculate_table_hash(store, table) ==
    blake3_hash(HashInput(store.rows, SortKeys(prefix_iterator(store, table))))

\* a tree that also carries the tables of the parent's tree forward
BuildTree_CarryForward(store, changes) ==
    LET parent == get_head(store)
        carried == IF parent = <<>> THEN {}
                   ELSE DOMAIN get_commit_by_hash(store, parent[1]).val.tree
    IN [t \in {changes[i].table : i \in 1..Len(changes)} \cup carried |->
           calculate_table_hash(store, t)]

\* the loop of create_commit: one tree entry per table named by a change
BuildTree(store, changes) ==
    [t \in {changes[i].table : i \in 1..Len(changes)} |-> calculate_table_hash(store, t)]

----------------------------------------------------------------------------
(* CRDT engine: a fold of changes into table -> (id -> value) *)

CrdtNew == <<>>

EngineRows(state, table) ==
    IF table \in DOMAIN state THEN state[table] ELSE <<>>

apply_change(state, change) ==
    LET old == EngineRows(state, change.table)
        new == IF change.kind = "Delete"
               THEN [i \in DOMAIN old \ {change.id} |-> old[i]]
               ELSE [i \in DOMAIN old \cup {change.id} |->
                        IF i = change.id THEN change.value ELSE old[i]]
    IN [t \in DOMAIN state \cup {change.table} |->
           IF t = change.table THEN new ELSE state[t]]

RECURSIVE ApplyAll(_, _)
ApplyAll(state, changes) ==
    IF changes = <<>> THEN state
    ELSE ApplyAll(apply_change(state, Head(changes)), Tail(changes))

Reverse(s) == [i \in 1..Len(s) |-> s[Len(s) + 1 - i]]

RECURSIVE ReplayCommits(_, _)
ReplayCommits(state, commits) ==
    IF commits = <<>> THEN state
    ELSE ReplayCommits(ApplyAll(state, Head(commits).changes), Tail(commits))

\* revert_to_commit: the chain is replayed oldest commit first
ReplayOldestFirst(chain) == ReplayCommits(CrdtNew, Reverse(chain))

----------------------------------------------------------------------------
(* Diffs.  The row maps and the tree are hash maps whose iteration order   *)
(* is not fixed, so each operation is given by the set of the results it   *)
(* may return.                                                             *)

\* the loops of get_table_diffs: from the given commit towards the root,
\* each commit's changes of the table applied as the commit is met
RECURSIVE ReplayTipFirst(_, _, _, _)
ReplayTipFirst(store, current_hash, table, engine) ==
    IF current_hash = <<>> THEN Ok(engine)
    ELSE LET got == get_commit_by_hash(store, current_hash[1])
         IN IF ~got.ok THEN got
            ELSE LET mine == SelectSeq(got.val.changes, LAMBDA c : c.table = table)
                 IN ReplayTipFirst(store, FirstParent(got.val), table,
                                   ApplyAll(engine, mine))

\* a diff without the loop over the rows that only from holds
DiffRows_NoDeletes(table, from_rows, to_rows) ==
    LET toSide ==
            {Update(table, id, serialize_value(to_rows[id])) :
                id \in {i \in DOMAIN to_rows :
                           i \in DOMAIN from_rows /\ from_rows[i] # to_rows[i]}}
            \cup {Insert(table, id, serialize_value(to_rows[id])) :
                    id \in DOMAIN to_rows \ DOMAIN from_rows}
    IN Perms(toSide)

DiffRows(table, from_rows, to_rows) ==
    LET toSide ==
            {Update(table, id, serialize_value(to_rows[id])) :
                id \in {i \in DOMAIN to_rows :
                           i \in DOMAIN from_rows /\ from_rows[i] # to_rows[i]}}
            \cup {Insert(table, id, serialize_value(to_rows[id])) :
                    id \in DOMAIN to_rows \ DOMAIN from_rows}
        fromOnly == {Delete(table, id) : id \in DOMAIN from_rows \ DOMAIN to_rows}
    IN {p \o q : p \in Perms(toSide), q \in Perms(fromOnly)}

get_table_diffs(store, table, from, to) ==
    LET from_commit == get_commit_by_hash(store, from)
        to_commit == get_commit_by_hash(store, to)
    IN IF ~from_commit.ok THEN {from_commit}
       ELSE IF ~to_commit.ok THEN {to_commit}
       ELSE LET from_engine == ReplayTipFirst(store, FirstParent(from_commit.val),
                                              table, CrdtNew)
                to_engine == ReplayTipFirst(store, FirstParent(to_commit.val),
                                            table, CrdtNew)
            IN IF ~from_engine.ok THEN {from_engine}
               ELSE IF ~to_engine.ok THEN {to_engine}
               ELSE {Ok(d) : d \in DiffRows(table, EngineRows(from_engine.val, table),
                                            EngineRows(to_engine.val, table))}

SchemaSentinel(table) == Insert(table, <<33, 115, 99, 104, 101, 109, 97>>, <<>>)

\* a commit diff that emits the sentinel for every table of to.tree
RECURSIVE CommitDiffLoop_AlwaysSentinel(_, _, _, _, _, _)
CommitDiffLoop_AlwaysSentinel(store, from, to, from_tree, to_tree, tables) ==
    IF tables = <<>> THEN {Ok(<<>>)}
    ELSE {Ok(<<SchemaSentinel(Head(tables))>> \o r.val) :
             r \in CommitDiffLoop_AlwaysSentinel(store, from, to, from_tree, to_tree,
                                                 Tail(tables))}

\* the results of the loop of get_commit_diffs over the tables in the given order
RECURSIVE CommitDiffLoop(_, _, _, _, _, _)
CommitDiffLoop(store, from, to, from_tree, to_tree, tables) ==
    IF tables = <<>> THEN {Ok(<<>>)}
    ELSE LET table == Head(tables)
             here == IF table \in DOMAIN from_tree
                     THEN IF from_tree[table] # to_tree[table]
                          THEN get_table_diffs(store, table, from, to)
                          ELSE {Ok(<<>>)}
                     ELSE {Ok(<<SchemaSentinel(table)>>)}
             rest == CommitDiffLoop(store, from, to, from_tree, to_tree, Tail(tables))
         IN {h \in here : ~h.ok}
            \cup {r \in rest : ~r.ok /\ \E h \in here : h.ok}
            \cup {Ok(h.val \o r.val) : h \in {x \in here : x.ok}, r \in {x \in rest : x.ok}}

get_commit_diffs(store, from, to) ==
    LET from_commit == get_commit_by_hash(store, from)
        to_commit == get_commit_by_hash(store, to)
    IN IF ~from_commit.ok THEN {from_commit}
       ELSE IF ~to_commit.ok THEN {to_commit}
       ELSE UNION {CommitDiffLoop(store, from, to, from_commit.val.tree,
                                  to_commit.val.tree, order) :
                      order \in Perms(DOMAIN to_commit.val.tree)}

----------------------------------------------------------------------------
(* State *)

EmptyStore == [objects |-> <<>>, head |-> <<>>, rows |-> <<>>]

Idle ==
    [pc |-> "idle", op |-> "none", message |-> <<>>, changes |-> <<>>,
     parent |-> <<>>, serialized |-> <<>>, hash |-> <<>>, target |-> <<>>,
     batch |-> <<>>, pre |-> <<>>, repeat |-> FALSE, overtaken |-> {}]

NoResult ==
    [op |-> "none", status |-> "none", hash |-> <<>>, message |-> <<>>,
     changes |-> <<>>, target |-> <<>>, pre |-> <<>>, repeat |-> FALSE, overtaken |-> {}]

\* what a finished call hands back: Ok or Err, and for Ok the id of the
\* commit it wrote (revert_to_commit drops that id and returns Ok(())),
\* kept with the arguments of the call, the store as the call found it,
\* whether the call repeats the revert that returned Ok just before it, and
\* the ids other callers put under HEAD after this call had read HEAD
Returned(frame, status, hash) ==
    [op |-> frame.op, status |-> status, hash |-> hash,
     message |-> frame.message, changes |-> frame.changes,
     target |-> frame.target, pre |-> frame.pre, repeat |-> frame.repeat,
     overtaken |-> frame.overtaken]

RevertedTo(result, commit_hash) ==
    /\ result.op = "revert_to_commit"
    /\ result.status = "ok"
    /\ result.target = <<commit_hash>>

StoredChanges(store) ==
    LET RECURSIVE Sum(_)
        Sum(S) == IF S = {} THEN 0
                  ELSE LET h == CHOOSE x \in S : TRUE
                       IN Len(DecodeStored(store.objects[h]).changes) + Sum(S \ {h})
    IN Sum(DOMAIN store.objects)

InitRowMaps ==
    LET keys == {RowKey(<<117>>, <<50>>), RowKey(<<117, 115>>, <<49>>)}
        vals == {serialize_value(<<98>>)}
    IN UNION {[K -> vals] : K \in {S \in SUBSET keys : Cardinality(S) <= MaxInitRows}}

\* open(): the store at the path, with the rows other code left in it,
\* no commit and no HEAD
Init ==
    /\ \E r \in InitRowMaps : db = [EmptyStore EXCEPT !.rows = r]
    /\ call = [w \in Writers |-> Idle]
    /\ last = [w \in Writers |-> NoResult]

----------------------------------------------------------------------------
(* create_commit, one action per store access *)

Put(f, k, v) == [x \in DOMAIN f \cup {k} |-> IF x = k THEN v ELSE f[x]]

Return(w, status, hash) ==
    /\ last' = [last EXCEPT ![w] = Returned(call[w], status, hash)]
    /\ call' = [call EXCEPT ![w] = Idle]

\* a caller enters create_commit(message, changes)
CreateCommitCall(w, message, changes) ==
    /\ call[w].pc = "idle"
    /\ Cardinality(Stored(db)) < MaxObjects
    /\ Len(changes) <= MaxChanges - StoredChanges(db)
    /\ call' = [call EXCEPT ![w] =
                   [Idle EXCEPT !.pc = "get_head", !.op = "create_commit",
                                !.message = message, !.changes = changes, !.pre = db]]
    /\ last' = [last EXCEPT ![w] = NoResult]
    /\ UNCHANGED db

\* a create_commit that takes no parent
GetHead_NoParent(w) ==
    /\ call[w].pc = "get_head"
    /\ call' = [call EXCEPT ![w].pc = "build", ![w].parent = <<>>]
    /\ UNCHANGED <<db, last>>

\* let parent = self.get_head()?
GetHead(w) ==
    /\ call[w].pc = "get_head"
    /\ call' = [call EXCEPT ![w].pc = "build", ![w].parent = get_head(db)]
    /\ UNCHANGED <<db, last>>

\* a create_commit whose id is the digest of the commit without its parents
BuildCommit_HashIgnoresParents(w) ==
    /\ call[w].pc = "build"
    /\ LET tree == BuildTree(db, call[w].changes)
       IN \E timestamp \in Timestamps, order \in Perms(DOMAIN tree) :
            LET commit == [parents |-> call[w].parent, message |-> call[w].message,
                           timestamp |-> timestamp, changes |-> call[w].changes,
                           tree |-> tree]
                serialized == bincode_serialize(commit, order)
            IN /\ call' = [call EXCEPT ![w].pc = "put_commit",
                                        ![w].serialized = serialized,
                                        ![w].hash = <<blake3_hash([serialized EXCEPT
                                                                     !.parents = <<>>])>>]
               /\ UNCHANGED last
    /\ UNCHANGED db

\* the tree loop, the Commit value, its serialization and its hash
BuildCommit(w) ==
    /\ call[w].pc = "build"
    /\ LET tree == BuildTree(db, call[w].changes)
       IN \E timestamp \in Timestamps, order \in Perms(DOMAIN tree) :
            LET commit == [parents |-> call[w].parent, message |-> call[w].message,
                           timestamp |-> timestamp, changes |-> call[w].changes,
                           tree |-> tree]
                serialized == bincode_serialize(commit, order)
            IN IF bincode_deserialize(serialized).message # commit.message
               THEN Return(w, "err", <<>>)
               ELSE /\ call' = [call EXCEPT ![w].pc = "put_commit",
                                            ![w].serialized = serialized,
                                            ![w].hash = <<blake3_hash(serialized)>>]
                    /\ UNCHANGED last
    /\ UNCHANGED db

\* a create_commit that moves HEAD in the step that stores the commit
PutCommit_WithHead(w) ==
    /\ call[w].pc = "put_commit"
    /\ db' = [db EXCEPT !.objects = Put(@, call[w].hash[1], Envelope(call[w].serialized)),
                        !.head = call[w].hash]
    /\ call' = [call EXCEPT ![w].pc = "update_head"]
    /\ UNCHANGED last

\* a create_commit whose key is the digest of the commit without its parents
PutCommit_KeyIgnoresParents(w) ==
    /\ call[w].pc = "put_commit"
    /\ db' = [db EXCEPT !.objects =
                 Put(@, blake3_hash([call[w].serialized EXCEPT !.parents = <<>>]),
                     Envelope(call[w].serialized))]
    /\ call' = [call EXCEPT ![w].pc = "update_head"]
    /\ UNCHANGED last

\* self.db.put(&hash_bytes, &protected_value)?
PutCommit(w) ==
    /\ call[w].pc = "put_commit"
    /\ db' = [db EXCEPT !.objects = Put(@, call[w].hash[1], Envelope(call[w].serialized))]
    /\ call' = [call EXCEPT ![w].pc = "update_head"]
    /\ UNCHANGED last

\* a create_commit that returns its id without moving HEAD
UpdateHead_NoPut(w) ==
    /\ call[w].pc = "update_head"
    /\ Return(w, "ok", call[w].hash)
    /\ UNCHANGED db

\* the frames after w has put hash under HEAD and returned: every other
\* call that has already read HEAD notes the put it did not see
Overtake(w, hash) ==
    [x \in Writers |->
        IF x = w THEN Idle
        ELSE IF call[x].pc \in {"build", "put_commit", "update_head"}
             THEN [call[x] EXCEPT !.overtaken = @ \cup {hash}]
             ELSE call[x]]

\* self.update_head(&hash_bytes)?; Ok(hash_bytes)
UpdateHead(w) ==
    /\ call[w].pc = "update_head"
    /\ db' = [db EXCEPT !.head = call[w].hash]
    /\ last' = [last EXCEPT ![w] = Returned(call[w], "ok", call[w].hash)]
    /\ call' = Overtake(w, call[w].hash[1])

\* any fallible step returns its error to the caller (or the process stops)
\* before the step has written anything
Fail(w) ==
    /\ call[w].pc # "idle"
    /\ Return(w, "err", <<>>)
    /\ UNCHANGED db

----------------------------------------------------------------------------
(* revert_to_commit *)

hex_encode(hash) == [hex |-> hash]

RevertMessage(commit_hash) == <<"Revert to ", hex_encode(commit_hash)>>

\* a revert record that turns every change into a Delete
RevertChanges_AllDeleted(changes) ==
    [i \in 1..Len(changes) |-> Delete(changes[i].table, changes[i].id)]

RevertChanges(changes) ==
    [i \in 1..Len(changes) |->
        IF changes[i].kind = "Insert"
        THEN Delete(changes[i].table, changes[i].id)
        ELSE changes[i]]

\* the rows into_data() yields, as the puts of the batch
EnginePuts(state) ==
    LET cells == {<<t, i>> \in TableNames \X (RowIds \cup {<<>>}) :
                     t \in DOMAIN state /\ i \in DOMAIN state[t]}
    IN [k \in {RowKey(c[1], c[2]) : c \in cells} |->
           LET c == CHOOSE x \in cells : RowKey(x[1], x[2]) = k
           IN serialize_value(state[c[1]][c[2]])]

\* a sweep that deletes nothing
SweepKeys_None(store, tree) == {}

\* a sweep whose prefix is the table name without the ':' separator
SweepKeys_NoSeparator(store, tree) ==
    UNION {prefix_iterator(store, t) : t \in DOMAIN tree}

\* the deletes of the batch: every live key under "{table}:" of the target's tree
SweepKeys(store, tree) ==
    UNION {prefix_iterator(store, t \o <<58>>) : t \in DOMAIN tree}

ApplyBatch(rows, batch) ==
    [k \in (DOMAIN rows \ batch.deletes) \cup DOMAIN batch.puts |->
        IF k \in DOMAIN batch.puts THEN batch.puts[k] ELSE rows[k]]

\* an id no commit is stored under
UnknownHash ==
    blake3_hash(bincode_serialize([parents |-> <<>>, message |-> <<"absent">>,
                                   timestamp |-> 0, changes |-> <<>>, tree |-> <<>>], <<>>))

\* a revert that replays the chain of HEAD instead of the chain of the target
RevertChain_FromHead(store, commit_hash) == load_commit_chain(store, get_head(store))

\* let commit_chain = self.load_commit_chain(Some(*commit_hash))?
RevertChain(store, commit_hash) == load_commit_chain(store, <<commit_hash>>)

\* revert_to_commit(commit_hash) up to the built batch and revert_changes
RevertCall(w, commit_hash) ==
    /\ call[w].pc = "idle"
    /\ Cardinality(Stored(db)) < MaxObjects
    /\ LET target_commit == get_commit_by_hash(db, commit_hash)
           commit_chain == RevertChain(db, commit_hash)
       IN /\ target_commit.ok
          /\ commit_chain.ok
          /\ LET target_engine == ReplayOldestFirst(commit_chain.val)
                 batch == [deletes |-> SweepKeys(db, target_commit.val.tree),
                           puts |-> EnginePuts(target_engine)]
             IN call' = [call EXCEPT ![w] =
                            [Idle EXCEPT !.pc = "write_batch", !.op = "revert_to_commit",
                                         !.target = <<commit_hash>>, !.batch = batch,
                                         !.message = RevertMessage(commit_hash),
                                         !.changes = RevertChanges(target_commit.val.changes),
                                         !.pre = db,
                                         !.repeat = RevertedTo(last[w], commit_hash)]]
    /\ last' = [last EXCEPT ![w] = NoResult]
    /\ UNCHANGED db

\* revert_to_commit of an id that is not stored: Err("Commit not found")
RevertMissing(w, commit_hash) ==
    /\ call[w].pc = "idle"
    /\ ~get_commit_by_hash(db, commit_hash).ok
    /\ last' = [last EXCEPT ![w] =
                   Returned([Idle EXCEPT !.op = "revert_to_commit",
                                         !.target = <<commit_hash>>, !.pre = db],
                            "err", <<>>)]
    /\ UNCHANGED <<db, call>>

\* self.db.write(batch)?, then self.create_commit(message, revert_changes)
WriteBatch(w) ==
    /\ call[w].pc = "write_batch"
    /\ db' = [db EXCEPT !.rows = ApplyBatch(@, call[w].batch)]
    /\ call' = [call EXCEPT ![w].pc = "get_head"]
    /\ UNCHANGED last

----------------------------------------------------------------------------
(* Specifications *)

ChangeLists(n) == IF n < 0 THEN {} ELSE SeqsUpTo(ChangeSet, n)

Step(w) ==
    \/ \E message \in Messages, changes \in ChangeLists(MaxChanges - StoredChanges(db)) :
          CreateCommitCall(w, message, changes)
    \/ GetHead(w)
    \/ BuildCommit(w)
    \/ PutCommit(w)
    \/ UpdateHead(w)
    \/ Fail(w)
    \/ \E commit_hash \in Stored(db) : RevertCall(w, commit_hash)
    \/ RevertMissing(w, UnknownHash)
    \/ WriteBatch(w)

\* one caller at a time: the single-writer use the store is written for
Next == Step(1)

Spec == Init /\ [][Next]_vars

\* P2 of a stored value: the trailing 32 bytes are the digest of the bytes before
Intact(store) ==
    \A h \in Stored(store) : store.objects[h][2] = blake3_hash(store.objects[h][1])

\* one bit of the timestamp field flipped: the bytes still decode as a Commit
FlipPayload(serialized) ==
    [serialized EXCEPT !.timestamp = IF @ % 2 = 0 THEN @ + 1 ELSE @ - 1]

\* the backend hands back a stored envelope with one byte flipped, either in
\* the payload or in the digest suffix
CorruptStored(hash, part) ==
    /\ \A w \in Writers : call[w].pc = "idle"
    /\ Intact(db)
    /\ db' = [db EXCEPT !.objects[hash] =
                 IF part = "payload"
                 THEN <<FlipPayload(@[1]), @[2]>>
                 ELSE <<@[1], blake3_hash(FlipPayload(@[1]))>>]
    /\ UNCHANGED <<call, last>>

\* the single-writer store whose backend may corrupt one stored envelope,
\* after which the store is only read
NextCorrupt ==
    \/ Intact(db) /\ Step(1)
    \/ \E hash \in Stored(db), part \in {"payload", "suffix"} : CorruptStored(hash, part)

SpecCorrupt == Init /\ [][NextCorrupt]_vars

\* the change lists the two racing callers submit: none, one insert or one
\* update of the same row
RaceChangeLists ==
    {<<>>, <<Insert(<<117>>, <<49>>, <<97>>)>>, <<Update(<<117>>, <<49>>, <<98>>)>>}

\* the steps of create_commit alone
CreateStep(w) ==
    \/ \E message \in Messages, changes \in RaceChangeLists :
          CreateCommitCall(w, message, changes)
    \/ GetHead(w)
    \/ BuildCommit(w)
    \/ PutCommit(w)
    \/ UpdateHead(w)
    \/ Fail(w)

\* two callers share the store (db: Arc<DB>) and run create_commit with
\* their store accesses interleaved in any order
NextConcurrent == \E w \in Writers : CreateStep(w)

\* open() on a fresh path: no rows, no commit, no HEAD (create_commit
\* writes no row, so the rows stay as the callers found them)
InitFresh == Init /\ db = EmptyStore

SpecConcurrent == InitFresh /\ [][NextConcurrent]_vars

----------------------------------------------------------------------------
(* Properties *)

ReturnedOk(w, op) == last[w].op = op /\ last[w].status = "ok"

\* C1: after a create_commit(message, changes) that returned Ok(h),
\* get_head() is h and get_commit_by_hash(h) is a commit with exactly that
\* message and those changes; if HEAD was absent before the call, the
\* history then has length 1.
C1_CreateCommitReadBack ==
    \A w \in Writers :
        ReturnedOk(w, "create_commit") =>
            LET h == last[w].hash[1]
                got == get_commit_by_hash(db, h)
                history == get_commit_history(db)
            IN /\ get_head(db) = <<h>>
               /\ got.ok
               /\ got.val.message = last[w].message
               /\ got.val.changes = last[w].changes
               /\ get_head(last[w].pre) = <<>> => history.ok /\ Len(history.val) = 1

C1_Witness ==
    /\ ReturnedOk(1, "create_commit")
    /\ get_head(last[1].pre) = <<>>
    /\ Len(last[1].changes) = 2

\* C2: every create_commit that returns Ok(h) puts exactly its commit in
\* front of the history the call found, so n such calls on an empty store
\* give the n commits [hn, ..., h1]; in the history the commit at index i
\* has parents[0] equal to the id at index i+1 and the last has no parent.
C2_HistoryTipFirst ==
    \A w \in Writers :
        ReturnedOk(w, "create_commit") =>
            LET before == get_commit_history(last[w].pre)
                after == get_commit_history(db)
                ids == ChainIds(db, get_head(db))
                n == Len(ids)
            IN /\ before.ok /\ after.ok
               /\ ids = last[w].hash \o ChainIds(last[w].pre, get_head(last[w].pre))
               /\ after.val = <<get_commit_by_hash(db, last[w].hash[1]).val>> \o before.val
               /\ Len(after.val) = n
               /\ \A i \in 1..(n - 1) :
                     /\ after.val[i].parents # <<>>
                     /\ after.val[i].parents[1] = ids[i + 1]
               /\ after.val[n].parents = <<>>

C2_Witness ==
    /\ ReturnedOk(1, "create_commit")
    /\ Len(get_commit_history(db).val) = 3
    /\ \A h \in Stored(db) : Len(DecodeStored(db.objects[h]).message) = 1

\* C3: in every state HEAD is absent or the id of a stored commit and the
\* first-parent walk from HEAD meets stored commits only; between the
\* commit put and the HEAD put (where a crash or a failed put leaves the
\* store) HEAD has the value the call found, and the new commit is stored
\* and not on HEAD's chain.
C3_HeadAndChainStored ==
    /\ get_head(db) = <<>> \/ get_head(db)[1] \in Stored(db)
    /\ get_commit_history(db).ok
    /\ \A w \in Writers :
          call[w].pc = "update_head" =>
              /\ get_head(db) = get_head(call[w].pre)
              /\ call[w].hash[1] \in Stored(db)
              /\ call[w].hash[1] \notin Reachable(db)

C3_Witness ==
    /\ last[1].status = "err"
    /\ Stored(db) # Stored(last[1].pre)
    /\ get_head(db) # <<>>
    /\ Cardinality(Stored(db) \ Reachable(db)) = 2

\* the objects of store a that store b lacks or holds with another value
NewObjects(a, b) ==
    {h \in Stored(a) : h \notin Stored(b) \/ a.objects[h] # b.objects[h]}

\* C4 (as claimed): when create_commit or revert_to_commit has returned an
\* error, either the call took effect fully (its commit is the new HEAD on
\* top of the old one) or HEAD and the live rows are what the call found
\* and the only difference is at most one new, unreachable commit object.
C4_FailureAllOrNothing ==
    \A w \in Writers :
        last[w].status = "err" =>
            LET pre == last[w].pre
                new == NewObjects(db, pre)
            IN \/ /\ get_head(db) # get_head(pre)
                  /\ get_head(db) # <<>>
                  /\ get_head(db)[1] \in new
                  /\ FirstParent(get_commit_by_hash(db, get_head(db)[1]).val) = get_head(pre)
               \/ /\ get_head(db) = get_head(pre)
                  /\ db.rows = pre.rows
                  /\ NewObjects(pre, db) = {}
                  /\ Cardinality(new) <= 1
                  /\ new \cap Reachable(db) = {}

\* the changes of the first-parent chain of commit_hash, oldest commit first
ChainChanges(store, commit_hash) ==
    LET chain == load_commit_chain(store, <<commit_hash>>).val
        RECURSIVE Flat(_)
        Flat(k) == IF k = 0 THEN <<>> ELSE chain[k].changes \o Flat(k - 1)
    IN Flat(Len(chain))

LiveKeys(store, table) == {k \in DOMAIN store.rows : HasPrefix(k, table \o <<58>>)}

\* C5: after a revert_to_commit(c) that returned Ok, for every table of
\* c.tree the live rows under "{table}:" are exactly the rows the engine
\* holds for the table after the changes of c's chain, oldest commit
\* first, each with the serialised value.
C5_RevertMaterialisesChain ==
    \A w \in Writers :
        ReturnedOk(w, "revert_to_commit") =>
            LET c == last[w].target[1]
                state == ApplyAll(CrdtNew, ChainChanges(db, c))
            IN \A table \in DOMAIN get_commit_by_hash(db, c).val.tree :
                  LET rows == EngineRows(state, table)
                  IN /\ LiveKeys(db, table) = {RowKey(table, id) : id \in DOMAIN rows}
                     /\ \A id \in DOMAIN rows :
                           db.rows[RowKey(table, id)] = serialize_value(rows[id])

C5_Witness ==
    /\ ReturnedOk(1, "revert_to_commit")
    /\ LET c == last[1].target[1]
           tree == get_commit_by_hash(db, c).val.tree
       IN /\ Len(load_commit_chain(db, <<c>>).val) = 2
          /\ \E table \in DOMAIN tree :
                /\ LiveKeys(db, table) # {}
                /\ LiveKeys(last[1].pre, table) \ LiveKeys(db, table) # {}

\* C6: when a revert_to_commit(c) that returned Ok is followed at once by
\* a second revert_to_commit(c) that returns Ok, the live rows after the
\* second call are those after the first; the second call adds one commit
\* object, moves HEAD to it and changes nothing else.
C6_RevertTwiceSameRows ==
    \A w \in Writers :
        (ReturnedOk(w, "revert_to_commit") /\ last[w].repeat) =>
            /\ db.rows = last[w].pre.rows
            /\ NewObjects(db, last[w].pre) = {last[w].hash[1]}
            /\ NewObjects(last[w].pre, db) = {}
            /\ get_head(db) = last[w].hash

C6_Witness ==
    /\ ReturnedOk(1, "revert_to_commit")
    /\ last[1].repeat
    /\ db.rows # <<>>
    /\ Len(load_commit_chain(db, last[1].target).val) = 1

\* C7: a revert_to_commit(target) that returned Ok while HEAD was B put
\* exactly one commit C in front of the history and moved HEAD to it;
\* C.parents[0] is B, C.message is "Revert to " and the hex of target, and
\* C.changes is target.changes in order with every Insert turned into the
\* Delete of its table and id and every other change kept.
C7_RevertRecord ==
    \A w \in Writers :
        ReturnedOk(w, "revert_to_commit") =>
            LET pre == last[w].pre
                target == last[w].target[1]
                wanted == get_commit_by_hash(pre, target).val.changes
                C == get_commit_by_hash(db, last[w].hash[1])
            IN /\ C.ok
               /\ get_head(db) = last[w].hash
               /\ ChainIds(db, get_head(db)) = last[w].hash \o ChainIds(pre, get_head(pre))
               /\ NewObjects(db, pre) \subseteq {last[w].hash[1]}
               /\ NewObjects(pre, db) = {}
               /\ C.val.parents = get_head(pre)
               /\ C.val.message = <<"Revert to ", hex_encode(target)>>
               /\ Len(C.val.changes) = Len(wanted)
               /\ \A i \in 1..Len(wanted) :
                     IF wanted[i].kind = "Insert"
                     THEN C.val.changes[i] = Delete(wanted[i].table, wanted[i].id)
                     ELSE C.val.changes[i] = wanted[i]

C7_Witness ==
    /\ ReturnedOk(1, "revert_to_commit")
    /\ get_head(last[1].pre) # <<>>
    /\ get_head(last[1].pre) # last[1].target
    /\ LET changes == get_commit_by_hash(db, last[1].target[1]).val.changes
       IN /\ Len(changes) = 2
          /\ changes[1].kind = "Update"
          /\ changes[2].kind = "Insert"

Tree(store, hash) == get_commit_by_hash(store, hash).val.tree

\* C8 (as claimed): for stored commits from and to and a table whose
\* digest is present and equal in both trees, get_table_diffs(table, from,
\* to) returns the empty list.
C8_EqualDigestEmptyTableDiff ==
    \A from \in Stored(db), to \in Stored(db), table \in TableNames :
        (/\ table \in DOMAIN Tree(db, from)
         /\ table \in DOMAIN Tree(db, to)
         /\ Tree(db, from)[table] = Tree(db, to)[table])
            => get_table_diffs(db, table, from, to) = {Ok(<<>>)}

\* C9 (as claimed): when commit to was created on top of commit from with
\* the single change Update{table, id, new_val}, and the id exists in the
\* table at from with another value, get_table_diffs(table, from, to)
\* returns exactly <<Update{table, id, serialize(new_val)}>>.
C9_TipUpdateSurfaces ==
    \A from \in Stored(db), to \in Stored(db) :
        LET to_commit == get_commit_by_hash(db, to).val
            change == to_commit.changes[1]
            at_from == EngineRows(ApplyAll(CrdtNew, ChainChanges(db, from)), change.table)
        IN (/\ to_commit.parents = <<from>>
            /\ Len(to_commit.changes) = 1
            /\ change.kind = "Update"
            /\ change.id \in DOMAIN at_from
            /\ at_from[change.id] # change.value)
               => get_table_diffs(db, change.table, from, to)
                     = {Ok(<<Update(change.table, change.id, serialize_value(change.value))>>)}

Occurrences(seq, x) == Cardinality({i \in 1..Len(seq) : seq[i] = x})

\* C10: for stored commits from and to, every result of
\* get_commit_diffs(from, to) holds exactly one sentinel Insert{table,
\* "!schema", []} for each table of to.tree that from.tree lacks, no change
\* of a table whose digest is equal in both trees, and no change of a
\* table that to.tree lacks.
C10_CommitDiffShape ==
    \A from \in Stored(db), to \in Stored(db) :
        \A result \in get_commit_diffs(db, from, to) :
            LET from_tree == Tree(db, from)
                to_tree == Tree(db, to)
                diffs == result.val
            IN /\ result.ok
               /\ \A table \in DOMAIN to_tree \ DOMAIN from_tree :
                     /\ Occurrences(diffs, Insert(table, <<33, 115, 99, 104, 101, 109, 97>>, <<>>)) = 1
                     /\ Cardinality({i \in 1..Len(diffs) : diffs[i].table = table}) = 1
               /\ \A i \in 1..Len(diffs) :
                     /\ diffs[i].table \in DOMAIN to_tree
                     /\ diffs[i].table \in DOMAIN from_tree
                           => from_tree[diffs[i].table] # to_tree[diffs[i].table]

\* one pair of commits yields a sentinel, its reverse (a table only in
\* from.tree) yields nothing, and another pair with an equal digest yields
\* nothing although the table diff of that pair is not empty
C10_Witness ==
    /\ \E from \in Stored(db), to \in Stored(db), table \in TableNames :
          /\ table \in DOMAIN Tree(db, to) \ DOMAIN Tree(db, from)
          /\ get_commit_diffs(db, from, to) = {Ok(<<SchemaSentinel(table)>>)}
          /\ get_commit_diffs(db, to, from) = {Ok(<<>>)}
    /\ \E from \in Stored(db), to \in Stored(db), table \in TableNames :
          /\ table \in DOMAIN Tree(db, to) \cap DOMAIN Tree(db, from)
          /\ Tree(db, from)[table] = Tree(db, to)[table]
          /\ get_table_diffs(db, table, from, to) # {Ok(<<>>)}
          /\ get_commit_diffs(db, from, to) = {Ok(<<>>)}

\* a pair of commits whose trees differ on a shared table and whose commit
\* diff carries that table's row changes
C10_WitnessRows ==
    \E from \in Stored(db), to \in Stored(db), t \in TableNames :
        /\ t \in DOMAIN Tree(db, to) \cap DOMAIN Tree(db, from)
        /\ Tree(db, from)[t] # Tree(db, to)[t]
        /\ \E result \in get_commit_diffs(db, from, to) : result.val # <<>>

\* C11 (as claimed): whenever the value stored under an id is an envelope
\* whose trailing digest is not the digest of the bytes before it,
\* get_commit_by_hash(id) fails with CorruptData and returns no commit.
C11_CorruptEnvelopeRejected ==
    \A h \in Stored(db) :
        db.objects[h][2] # blake3_hash(db.objects[h][1])
            => get_commit_by_hash(db, h) = Err("CorruptData")

\* C12 (as claimed): for every stored commit, decoding the stored envelope
\* and encoding the decoded commit again in bare form gives bytes whose
\* digest is the key, whatever order the decoded tree map is iterated in.
C12_ReencodeMatchesKey ==
    \A h \in Stored(db) :
        LET commit == DecodeStored(db.objects[h])
        IN \A order \in Perms(DOMAIN commit.tree) :
              blake3_hash(bincode_serialize(commit, order)) = h

\* C13: no step of create_commit or revert_to_commit, whether the call
\* then succeeds, fails or stops, removes a stored commit object or
\* changes the value stored under its id.
C13_StoredCommitsImmutable ==
    [][\A h \in Stored(db) : h \in Stored(db') /\ db'.objects[h] = db.objects[h]]_vars

\* a create_commit whose put met its own id already stored (the retry of a
\* call that failed after the commit put), beside another stored commit
C13_Witness ==
    /\ ReturnedOk(1, "create_commit")
    /\ last[1].hash[1] \in Stored(last[1].pre)
    /\ Cardinality(Stored(db)) >= 2
    /\ \A h \in Stored(last[1].pre) : db.objects[h] = last[1].pre.objects[h]

\* the first-parent walk from hash meets stored commits only and ends,
\* within fuel steps, at a commit whose parents list is empty
RECURSIVE TerminatesWithin(_, _, _)
TerminatesWithin(store, hash, fuel) ==
    IF fuel = 0 THEN FALSE
    ELSE LET got == get_commit_by_hash(store, hash)
         IN /\ got.ok
            /\ \/ got.val.parents = <<>>
               \/ TerminatesWithin(store, got.val.parents[1], fuel - 1)

\* C14: in every state the first-parent walk from HEAD and from every
\* stored commit ends at a commit with no parent after at most as many
\* steps as there are stored commits, so the stored graph has no cycle.
C14_ChainTerminates ==
    /\ get_head(db) # <<>> =>
          TerminatesWithin(db, get_head(db)[1], Cardinality(Stored(db)))
    /\ \A h \in Stored(db) : TerminatesWithin(db, h, Cardinality(Stored(db)))

\* a chain of two under HEAD beside an unreachable commit that has a parent
C14_Witness ==
    /\ Len(ChainIds(db, get_head(db))) = 2
    /\ \E h \in Stored(db) \ Reachable(db) : Len(ChainIds(db, <<h>>)) = 2

\* the live rows of a table: the keys "{table}:{id}" with their values
LiveRows(store, table) == [k \in LiveKeys(store, table) |-> store.rows[k]]

\* C15 (as claimed): two stores whose rows of table T are identical give
\* the same digest for T, whatever the rows of the other tables are; the
\* two stores compared are the one a finished call found and the one it
\* left.
C15_DigestOnlyOwnRows ==
    \A w \in Writers, table \in TableNames :
        (/\ last[w].status # "none"
         /\ LiveRows(last[w].pre, table) = LiveRows(db, table))
            => calculate_table_hash(last[w].pre, table) = calculate_table_hash(db, table)

\* the id -> value map get_table_diffs rebuilds for the table from the
\* chain of the first parent of the commit, the commit's own changes left out
ParentRows(store, table, hash) ==
    EngineRows(ReplayTipFirst(store, FirstParent(get_commit_by_hash(store, hash).val),
                              table, CrdtNew).val, table)

\* the map with every value in the serialised form the emitted changes carry
SerializedRows(rows) == [id \in DOMAIN rows |-> serialize_value(rows[id])]

\* every result of get_table_diffs over the commits of the store holds
\* exactly the changes that lead from F to T
TableDiffExact(store) ==
    \A from \in Stored(store), to \in Stored(store), table \in TableNames :
        LET F == ParentRows(store, table, from)
            T == ParentRows(store, table, to)
        IN \A result \in get_table_diffs(store, table, from, to) :
              LET diffs == result.val
                  At(id) == {i \in 1..Len(diffs) : diffs[i].id = id}
                  Only(id, change) == \E i \in At(id) : At(id) = {i} /\ diffs[i] = change
              IN /\ result.ok
                 /\ \A i \in 1..Len(diffs) :
                       diffs[i].table = table /\ diffs[i].id \in DOMAIN F \cup DOMAIN T
                 /\ \A id \in DOMAIN F \cup DOMAIN T :
                       IF id \in DOMAIN F /\ id \in DOMAIN T
                       THEN IF F[id] # T[id]
                            THEN Only(id, Update(table, id, serialize_value(T[id])))
                            ELSE At(id) = {}
                       ELSE IF id \in DOMAIN T
                            THEN Only(id, Insert(table, id, serialize_value(T[id])))
                            ELSE Only(id, Delete(table, id))
                 /\ EngineRows(ApplyAll([t \in {table} |-> SerializedRows(F)], diffs), table)
                       = SerializedRows(T)
                 /\ from = to => diffs = <<>>

\* C16: for stored commits from and to and a table, with F and T the maps
\* get_table_diffs rebuilds from the chains of from.parents[0] and
\* to.parents[0], every result holds exactly one change for each id on
\* which F and T differ (Update with serialize(T[id]) if the id is in both,
\* Insert with serialize(T[id]) if only in T, Delete if only in F) and no
\* other change; applying the result to F, values serialised, gives T, and
\* the diff of a commit with itself is empty.  The diffs depend on the
\* stored commits only, so this is stated of the store after every step
\* that stores a commit (the store without commits has no pair to diff).
C16_TableDiffExact ==
    [][db'.objects # db.objects => TableDiffExact(db')]_vars

\* one state with an Update (the two parent chains hold different values
\* of an id), an Insert and a Delete among the table diffs of its commits
C16_Witness ==
    \E a \in Stored(db), b \in Stored(db), c \in Stored(db), table \in TableNames :
        /\ \E r \in get_table_diffs(db, table, a, b) :
              Len(r.val) = 1 /\ r.val[1].kind = "Update"
        /\ \E r \in get_table_diffs(db, table, c, a) :
              Len(r.val) = 1 /\ r.val[1].kind = "Insert"
        /\ \E r \in get_table_diffs(db, table, a, c) :
              Len(r.val) = 1 /\ r.val[1].kind = "Delete"

\* C17: the tree of every stored commit has as its keys exactly the
\* tables named by the commit's own changes, whatever the parent's tree
\* holds; a commit without changes has an empty tree.
C17_TreeKeysAreTouchedTables ==
    \A h \in Stored(db) :
        LET commit == get_commit_by_hash(db, h).val
        IN /\ DOMAIN commit.tree = {commit.changes[i].table : i \in 1..Len(commit.changes)}
           /\ commit.changes = <<>> => commit.tree = <<>>

\* a commit whose tree lacks a table of its parent's tree, under a commit
\* without changes whose tree is empty
C17_Witness ==
    \E h \in Stored(db), g \in Stored(db) :
        LET commit == get_commit_by_hash(db, h).val
            child == get_commit_by_hash(db, g).val
        IN /\ commit.parents # <<>>
           /\ commit.tree # <<>>
           /\ DOMAIN Tree(db, commit.parents[1]) \ DOMAIN commit.tree # {}
           /\ child.parents = <<h>>
           /\ child.changes = <<>>
           /\ child.tree = <<>>

\* both callers hold the Ok of a create_commit and HEAD is the id w was
\* handed: w's HEAD put was the last one
BothReturned(w, o) ==
    /\ w # o
    /\ ReturnedOk(w, "create_commit")
    /\ ReturnedOk(o, "create_commit")
    /\ get_head(db) = last[w].hash

\* what the claim states of the two returned calls w (last HEAD put) and o;
\* o's HEAD put preceded w's HEAD read when w was not overtaken by it
RaceOutcome(w, o) ==
    LET mine == last[w].hash[1]
        other == last[o].hash[1]
    IN /\ {mine, other} \subseteq Stored(db)
       /\ other \in Reachable(db) => other \notin last[w].overtaken
       /\ other \in last[w].overtaken =>
             /\ get_commit_by_hash(db, mine).val.parents
                   = get_commit_by_hash(db, other).val.parents
             /\ other \notin Reachable(db)

\* C18 (as claimed): when two create_commit calls have both returned Ok,
\* both commits are stored, HEAD is the id of the call whose HEAD put came
\* last, and the other call's commit is on HEAD's chain only if its HEAD
\* put preceded the last writer's HEAD read; otherwise the two commits
\* have the same parent and the other one is unreachable from HEAD.
C18_RaceOutcome ==
    \A w \in Writers, o \in Writers :
        /\ (w # o /\ ReturnedOk(w, "create_commit") /\ ReturnedOk(o, "create_commit"))
              => get_head(db) \in {last[w].hash, last[o].hash}
        /\ BothReturned(w, o) => RaceOutcome(w, o)

\* no call other than the two put HEAD between the HEAD read and the HEAD
\* put of either
OnlyEachOther(w, o) ==
    /\ last[w].overtaken \subseteq {last[o].hash[1]}
    /\ last[o].overtaken \subseteq {last[w].hash[1]}

\* C18 (amended): as claimed, for two calls that were handed different
\* ids and between whose HEAD read and HEAD put no third call put HEAD.
C18_IsolatedRaceOutcome ==
    \A w \in Writers, o \in Writers :
        /\ (w # o /\ ReturnedOk(w, "create_commit") /\ ReturnedOk(o, "create_commit"))
              => get_head(db) \in {last[w].hash, last[o].hash}
        /\ (BothReturned(w, o) /\ OnlyEachOther(w, o) /\ last[w].hash # last[o].hash)
              => RaceOutcome(w, o)

\* a race on an existing HEAD: both calls read the same parent, the first
\* HEAD put is overwritten and its commit is left unreachable
C18_Witness ==
    /\ BothReturned(1, 2)
    /\ OnlyEachOther(1, 2)
    /\ last[1].hash # last[2].hash
    /\ last[2].hash[1] \in last[1].overtaken
    /\ get_commit_by_hash(db, last[1].hash[1]).val.parents # <<>>
    /\ last[2].hash[1] \notin Reachable(db)

\* the row batch of a revert_to_commit has just been written
BatchWritten(w) == call[w].op = "revert_to_commit" /\ call[w].pc = "get_head"

\* C19: right after the row batch of revert_to_commit(target), every row
\* the batch removed has a key under "{table}:" for a table of
\* target.tree; every row outside those prefixes is still there, with its
\* old value or with the value the replayed state holds for its key; HEAD
\* and the commit objects are what the call found.
C19_RevertFrame ==
    \A w \in Writers :
        BatchWritten(w) =>
            LET pre == call[w].pre
                target == call[w].target[1]
                tree == get_commit_by_hash(pre, target).val.tree
                swept == {k \in DOMAIN pre.rows :
                             \E t \in DOMAIN tree : HasPrefix(k, t \o <<58>>)}
                replayed == EnginePuts(ReplayOldestFirst(load_commit_chain(pre, <<target>>).val))
            IN /\ DOMAIN pre.rows \ DOMAIN db.rows \subseteq swept
               /\ \A k \in DOMAIN pre.rows \ swept :
                     /\ k \in DOMAIN db.rows
                     /\ \/ db.rows[k] = pre.rows[k]
                        \/ k \in DOMAIN replayed /\ db.rows[k] = replayed[k]
               /\ get_head(db) = get_head(pre)
               /\ db.objects = pre.objects

\* the batch removed a row of a table of target.tree and kept the row of
\* the table whose name only starts with that table's name
C19_Witness ==
    /\ BatchWritten(1)
    /\ DOMAIN get_commit_by_hash(db, call[1].target[1]).val.tree = {<<117>>}
    /\ DOMAIN call[1].pre.rows \ DOMAIN db.rows # {}
    /\ RowKey(<<117, 115>>, <<49>>) \in DOMAIN db.rows

\* C20 (as claimed): for every stored commit p and table t, the map
\* get_table_diffs rebuilds for t from the chain that starts at p is the
\* map of t that revert_to_commit(p) replays from the same chain, oldest
\* commit first.
C20_SameReplayOrder ==
    \A p \in Stored(db), t \in TableNames :
        EngineRows(ReplayTipFirst(db, <<p>>, t, CrdtNew).val, t)
            = EngineRows(ReplayOldestFirst(load_commit_chain(db, <<p>>).val), t)

=============================================================================
